---- MODULE Spec2Model ----
(***************************************************************************)
(* Model of lib/ansible/modules/identity/ipa/ipa_host.py: one invocation   *)
(* of main() logs in, looks the host up, issues at most one of host_add,   *)
(* host_mod, host_del, looks the host up again and reports through         *)
(* exit_json or fail_json.  The directory server is the environment: it    *)
(* stores what the calls send it.                                          *)
(*                                                                         *)
(* Encoding.  A Python value that may be None is a sequence of length at   *)
(* most one: None is <<>>, a value v is <<v>>.  A dict is a function whose *)
(* DOMAIN is its key set; the empty dict is <<>>.  A list option (MAC      *)
(* addresses, certificates) is the set of its items: the directory keeps   *)
(* multi-valued attributes as sets, so order and repetition are dropped.   *)
(***************************************************************************)
EXTENDS Integers, Sequences, FiniteSets, TLC

VARIABLES
    params,      \* module.params of the invocation
    check_mode,  \* module.check_mode
    directory,   \* the server's hosts: fqdn -> [enabled, attrs]
    pc,          \* position of main(): login, find, apply, refind, exit_json, done, failed, crashed
    ipa_host,    \* ensure(): result of the first host_find
    changed,     \* ensure(): changed
    diff,        \* ensure(): result of get_host_diff ({} when not computed)
    host,        \* ensure(): result of the second host_find, None before it
    calls,       \* remote calls issued by this invocation, in order
    result,      \* keyword arguments of exit_json, None if not called
    failure,     \* keyword arguments of fail_json, None if not called
    dir0,        \* directory when this invocation started
    prev,        \* summary of the previous invocation, None for the first
    runs         \* number of invocations started

vars == <<params, check_mode, directory, pc, ipa_host, changed, diff, host,
          calls, result, failure, dir0, prev, runs>>

----------------------------------------------------------------------------
\* Bounds of the model.

\* Invocations of the module in one behaviour (the same task run again).
MaxRuns == 2
\* Options other than fqdn and state supplied to one invocation.
MaxSupplied == 2
\* Attributes assigned to the host in the starting directory.
MaxAssigned == 1

None == <<>>
Some(v) == <<v>>
EmptyDict == <<>>

Fqdns == {"host01.example.com"}
DescriptionValues == {"Example host"}
DirDescriptionValues == {"Example host", "Old host"}
IpValues == {"192.168.0.123"}
LocationValues == {"Lab"}
PlatformValues == {"Lenovo T61"}
OsValues == {"CentOS 7"}
MacValues == {"08:00:27:E3:B1:2D", "52:54:00:BD:97:1E"}
CertValues == {"MIIC"}

Opt(S) == {None} \cup {Some(v) : v \in S}


----------------------------------------------------------------------------
\* Dicts.

Restrict(d, S) == [k \in S |-> d[k]]

\* Keys of module_host whose value is a list.
ListKeys == {"usercertificate", "macaddress"}
\* Keys of the host attributes the module manages.
AttrKeys == {"description", "nshostlocation", "nshardwareplatform", "nsosversion",
             "usercertificate", "macaddress"}
\* Option names of the argument spec that get_host_dict reads.
OptionNames == {"description", "force", "ip_address", "ns_host_location",
                "ns_hardware_platform", "ns_os_version", "user_certificate",
                "mac_address"}
\* The module_host key each option is stored under.
KeyOf(o) ==
    CASE o = "ns_host_location" -> "nshostlocation"
      [] o = "ns_hardware_platform" -> "nshardwareplatform"
      [] o = "ns_os_version" -> "nsosversion"
      [] o = "user_certificate" -> "usercertificate"
      [] o = "mac_address" -> "macaddress"
      [] OTHER -> o

Supplied(p) == {o \in OptionNames : p[o] # None}

----------------------------------------------------------------------------
\* get_host_dict, preceded by two faulty variants of it.

\* Copy-paste slip: the location is stored under the hardware platform key.
get_host_dict_wrong_key(description, force, ip_address, ns_host_location, ns_hardware_platform, ns_os_version, user_certificate, mac_address) ==
    LET keys == (IF description # None THEN {"description"} ELSE {})
           \cup (IF force # None THEN {"force"} ELSE {})
           \cup (IF ip_address # None THEN {"ip_address"} ELSE {})
           \cup (IF ns_host_location # None THEN {"nshardwareplatform"} ELSE {})
           \cup (IF ns_hardware_platform # None THEN {"nshardwareplatform"} ELSE {})
           \cup (IF ns_os_version # None THEN {"nsosversion"} ELSE {})
           \cup (IF user_certificate # None THEN {"usercertificate"} ELSE {})
           \cup (IF mac_address # None THEN {"macaddress"} ELSE {})
    IN [k \in keys |->
          CASE k = "description" -> description[1]
            [] k = "force" -> force[1]
            [] k = "ip_address" -> ip_address[1]
            [] k = "nshardwareplatform" ->
                 IF ns_hardware_platform # None THEN ns_hardware_platform[1]
                 ELSE ns_host_location[1]
            [] k = "nsosversion" -> ns_os_version[1]
            [] k = "usercertificate" -> {[base64 |-> item] : item \in user_certificate[1]}
            [] k = "macaddress" -> mac_address[1]]

\* Truthiness instead of "is not None": an empty list counts as omitted.
get_host_dict_truthy(description, force, ip_address, ns_host_location, ns_hardware_platform, ns_os_version, user_certificate, mac_address) ==
    LET keys == (IF description # None THEN {"description"} ELSE {})
           \cup (IF force # None THEN {"force"} ELSE {})
           \cup (IF ip_address # None THEN {"ip_address"} ELSE {})
           \cup (IF ns_host_location # None THEN {"nshostlocation"} ELSE {})
           \cup (IF ns_hardware_platform # None THEN {"nshardwareplatform"} ELSE {})
           \cup (IF ns_os_version # None THEN {"nsosversion"} ELSE {})
           \cup (IF user_certificate \notin {None, Some({})} THEN {"usercertificate"} ELSE {})
           \cup (IF mac_address \notin {None, Some({})} THEN {"macaddress"} ELSE {})
    IN [k \in keys |->
          CASE k = "description" -> description[1]
            [] k = "force" -> force[1]
            [] k = "ip_address" -> ip_address[1]
            [] k = "nshostlocation" -> ns_host_location[1]
            [] k = "nshardwareplatform" -> ns_hardware_platform[1]
            [] k = "nsosversion" -> ns_os_version[1]
            [] k = "usercertificate" -> {[base64 |-> item] : item \in user_certificate[1]}
            [] k = "macaddress" -> mac_address[1]]

\* data = {}; one key per argument that is not None; each certificate is
\* wrapped as {"__base64__": item}.
get_host_dict(description, force, ip_address, ns_host_location, ns_hardware_platform, ns_os_version, user_certificate, mac_address) ==
    LET keys == (IF description # None THEN {"description"} ELSE {})
           \cup (IF force # None THEN {"force"} ELSE {})
           \cup (IF ip_address # None THEN {"ip_address"} ELSE {})
           \cup (IF ns_host_location # None THEN {"nshostlocation"} ELSE {})
           \cup (IF ns_hardware_platform # None THEN {"nshardwareplatform"} ELSE {})
           \cup (IF ns_os_version # None THEN {"nsosversion"} ELSE {})
           \cup (IF user_certificate # None THEN {"usercertificate"} ELSE {})
           \cup (IF mac_address # None THEN {"macaddress"} ELSE {})
    IN [k \in keys |->
          CASE k = "description" -> description[1]
            [] k = "force" -> force[1]
            [] k = "ip_address" -> ip_address[1]
            [] k = "nshostlocation" -> ns_host_location[1]
            [] k = "nshardwareplatform" -> ns_hardware_platform[1]
            [] k = "nsosversion" -> ns_os_version[1]
            [] k = "usercertificate" -> {[base64 |-> item] : item \in user_certificate[1]}
            [] k = "macaddress" -> mac_address[1]]

\* The call ensure() makes: get_host_dict(description=module.params[...], ...).
ModuleHost(p) ==
    get_host_dict(p.description, p.force, p.ip_address, p.ns_host_location,
                  p.ns_hardware_platform, p.ns_os_version, p.user_certificate,
                  p.mac_address)

----------------------------------------------------------------------------
\* get_diff and get_host_diff.

\* IPAClient.get_diff: the keys of module_data whose value differs from the
\* value of ipa_data; a key ipa_data lacks counts as None, as the empty list
\* for a list value.
get_diff(ipa_data, module_data) ==
    {key \in DOMAIN module_data :
        IF key \in DOMAIN ipa_data
        THEN module_data[key] # ipa_data[key]
        ELSE IF key \in ListKeys THEN module_data[key] # {} ELSE TRUE}

non_updateable_keys == {"force", "ip_address"}

\* module_host after get_host_diff has deleted the non-updateable keys from it.
StripNonUpdateable(module_host) ==
    Restrict(module_host, DOMAIN module_host \ non_updateable_keys)

\* The deletion loop left out: force and ip_address are compared too.
get_host_diff_keep_all(ipa_data, module_host) ==
    get_diff(ipa_data, module_host)

get_host_diff(ipa_data, module_host) ==
    get_diff(ipa_data, StripNonUpdateable(module_host))

----------------------------------------------------------------------------
\* The directory server behind HostIPAClient.

Call(method, name, item) == [method |-> method, name |-> name, item |-> item]

MutatingMethods == {"host_add", "host_mod", "host_del"}

\* host_find: the entry as a dict, the empty dict when there is none.
host_find(dir, name) ==
    IF name \in DOMAIN dir
    THEN [k \in DOMAIN dir[name].attrs \cup {"fqdn"} |->
            IF k = "fqdn" THEN name ELSE dir[name].attrs[k]]
    ELSE EmptyDict

\* The attributes the server keeps of an item: force and ip_address are
\* options of the command, not attributes, and an empty list assigns nothing.
StoredKeys(item) ==
    {k \in DOMAIN item \cap AttrKeys : k \in ListKeys => item[k] # {}}

host_add(dir, name, item) ==
    [n \in DOMAIN dir \cup {name} |->
        IF n = name
        THEN [enabled |-> TRUE, attrs |-> Restrict(item, StoredKeys(item))]
        ELSE dir[n]]

host_mod(dir, name, item) ==
    LET old == dir[name].attrs
        keys == (DOMAIN old \ DOMAIN item) \cup StoredKeys(item)
    IN [dir EXCEPT ![name].attrs =
           [k \in keys |-> IF k \in DOMAIN item THEN item[k] ELSE old[k]]]

host_del(dir, name) == Restrict(dir, DOMAIN dir \ {name})

\* The server refuses to add a host that exists, to modify or delete one
\* that does not, and to modify with an option host_mod does not have.
ServerAccepts(dir, c) ==
    CASE c.method = "host_add" -> c.name \notin DOMAIN dir
      [] c.method = "host_mod" -> c.name \in DOMAIN dir /\ DOMAIN c.item \subseteq AttrKeys
      [] c.method = "host_del" -> c.name \in DOMAIN dir
      [] OTHER -> TRUE

ServerApply(dir, c) ==
    CASE c.method = "host_add" -> host_add(dir, c.name, c.item)
      [] c.method = "host_mod" -> host_mod(dir, c.name, c.item)
      [] c.method = "host_del" -> host_del(dir, c.name)
      [] OTHER -> dir

----------------------------------------------------------------------------
\* ensure(): the branch between the two host_find calls, preceded by two
\* faulty variants of it.
\* The result is the changed flag, the diff and the calls the branch issues.

Branch(c, d, cs) == [changed |-> c, diff |-> d, calls |-> cs]

\* The check-mode guard left out of the delete branch.
ensure_branch_del_unguarded(name, state, found, module_host, check) ==
    IF state \in {"present", "enabled", "disabled"}
    THEN IF found = EmptyDict
         THEN Branch(TRUE, {},
                     IF ~check THEN <<Call("host_add", name, module_host)>> ELSE <<>>)
         ELSE LET d == get_host_diff(found, module_host)
              IN IF Cardinality(d) > 0
                 THEN Branch(TRUE, d,
                             IF ~check
                             THEN <<Call("host_mod", name, Restrict(module_host, d))>>
                             ELSE <<>>)
                 ELSE Branch(FALSE, d, <<>>)
    ELSE IF found # EmptyDict
         THEN Branch(TRUE, {}, <<Call("host_del", name, EmptyDict)>>)
         ELSE Branch(FALSE, {}, <<>>)

\* A new host is added and then modified with the same item.
ensure_branch_add_then_mod(name, state, found, module_host, check) ==
    IF state \in {"present", "enabled", "disabled"}
    THEN IF found = EmptyDict
         THEN Branch(TRUE, {},
                     IF ~check
                     THEN <<Call("host_add", name, module_host),
                            Call("host_mod", name, StripNonUpdateable(module_host))>>
                     ELSE <<>>)
         ELSE LET d == get_host_diff(found, module_host)
              IN IF Cardinality(d) > 0
                 THEN Branch(TRUE, d,
                             IF ~check
                             THEN <<Call("host_mod", name, Restrict(module_host, d))>>
                             ELSE <<>>)
                 ELSE Branch(FALSE, d, <<>>)
    ELSE IF found # EmptyDict
         THEN Branch(TRUE, {},
                     IF ~check THEN <<Call("host_del", name, EmptyDict)>> ELSE <<>>)
         ELSE Branch(FALSE, {}, <<>>)

\* changed = False; if state in ['present', 'enabled', 'disabled']: add when
\* the host is missing, else modify the keys of the diff; else: delete when
\* the host is found.  data[key] = module_host.get(key) for key in diff.
ensure_branch(name, state, found, module_host, check) ==
    IF state \in {"present", "enabled", "disabled"}
    THEN IF found = EmptyDict
         THEN Branch(TRUE, {},
                     IF ~check THEN <<Call("host_add", name, module_host)>> ELSE <<>>)
         ELSE LET d == get_host_diff(found, module_host)
              IN IF Cardinality(d) > 0
                 THEN Branch(TRUE, d,
                             IF ~check
                             THEN <<Call("host_mod", name, Restrict(module_host, d))>>
                             ELSE <<>>)
                 ELSE Branch(FALSE, d, <<>>)
    ELSE IF found # EmptyDict
         THEN Branch(TRUE, {},
                     IF ~check THEN <<Call("host_del", name, EmptyDict)>> ELSE <<>>)
         ELSE Branch(FALSE, {}, <<>>)

----------------------------------------------------------------------------
\* main(): the except clause, preceded by a faulty variant of it.

\* The clause does not match the exception: the invocation ends in a traceback.
main_except_uncaught(e) == [pc |-> "crashed", failure |-> None]

\* except Exception as e: module.fail_json(msg=to_native(e), exception=traceback.format_exc())
main_except(e) ==
    [pc |-> "failed", failure |-> Some([msg |-> e, exception |-> "traceback"])]

----------------------------------------------------------------------------
\* Starting states.

States == {"present", "absent", "enabled", "disabled"}

ParamSets ==
    {p \in [fqdn : Fqdns, state : States,
            description : Opt(DescriptionValues),
            force : Opt(BOOLEAN),
            ip_address : Opt(IpValues),
            ns_host_location : Opt(LocationValues),
            ns_hardware_platform : Opt(PlatformValues),
            ns_os_version : Opt(OsValues),
            user_certificate : Opt(SUBSET CertValues),
            mac_address : Opt(SUBSET MacValues)] :
        Cardinality(Supplied(p)) <= MaxSupplied}

\* The attributes of a host entry: a key for each assigned attribute.
AttrDict(d, l, h, o, c, m) ==
    LET keys == (IF d # None THEN {"description"} ELSE {})
           \cup (IF l # None THEN {"nshostlocation"} ELSE {})
           \cup (IF h # None THEN {"nshardwareplatform"} ELSE {})
           \cup (IF o # None THEN {"nsosversion"} ELSE {})
           \cup (IF c # {} THEN {"usercertificate"} ELSE {})
           \cup (IF m # {} THEN {"macaddress"} ELSE {})
    IN [k \in keys |->
          CASE k = "description" -> d[1]
            [] k = "nshostlocation" -> l[1]
            [] k = "nshardwareplatform" -> h[1]
            [] k = "nsosversion" -> o[1]
            [] k = "usercertificate" -> {[base64 |-> item] : item \in c}
            [] k = "macaddress" -> m]

AttrDicts ==
    {a \in {AttrDict(d, l, h, o, c, m) :
                d \in Opt(DirDescriptionValues), l \in Opt(LocationValues),
                h \in Opt(PlatformValues), o \in Opt(OsValues),
                c \in SUBSET CertValues, m \in SUBSET MacValues} :
        Cardinality(DOMAIN a) <= MaxAssigned}

Directories ==
    {EmptyDict} \cup
    {[n \in Fqdns |-> [enabled |-> e, attrs |-> a]] : e \in BOOLEAN, a \in AttrDicts}

Init ==
    /\ params \in ParamSets
    /\ check_mode \in BOOLEAN
    /\ directory \in Directories
    /\ dir0 = directory
    /\ pc = "login"
    /\ ipa_host = EmptyDict
    /\ changed = FALSE
    /\ diff = {}
    /\ host = None
    /\ calls = <<>>
    /\ result = None
    /\ failure = None
    /\ prev = None
    /\ runs = 1

----------------------------------------------------------------------------
\* Steps of main().

Raise(e) ==
    /\ pc' = main_except(e).pc
    /\ failure' = main_except(e).failure

\* client.login(username=..., password=...)
Login ==
    /\ pc = "login"
    /\ \E ok \in BOOLEAN :
         IF ok
         THEN /\ calls' = Append(calls, Call("login", params.fqdn, EmptyDict))
              /\ pc' = "find"
              /\ UNCHANGED failure
         ELSE /\ Raise("login")
              /\ UNCHANGED calls
    /\ UNCHANGED <<params, check_mode, directory, ipa_host, changed, diff, host,
                   result, dir0, prev, runs>>

\* ensure(): ipa_host = client.host_find(name=name)
EnsureFind ==
    /\ pc = "find"
    /\ \E ok \in BOOLEAN :
         IF ok
         THEN /\ calls' = Append(calls, Call("host_find", params.fqdn, EmptyDict))
              /\ ipa_host' = host_find(directory, params.fqdn)
              /\ pc' = "apply"
              /\ UNCHANGED failure
         ELSE /\ Raise("host_find")
              /\ UNCHANGED <<calls, ipa_host>>
    /\ UNCHANGED <<params, check_mode, directory, changed, diff, host, result,
                   dir0, prev, runs>>

RECURSIVE ApplyAll(_, _)
ApplyAll(dir, cs) ==
    IF cs = <<>> THEN dir ELSE ApplyAll(ServerApply(dir, Head(cs)), Tail(cs))

RECURSIVE AllAccepted(_, _)
AllAccepted(dir, cs) ==
    IF cs = <<>> THEN TRUE
    ELSE /\ ServerAccepts(dir, Head(cs))
         /\ AllAccepted(ServerApply(dir, Head(cs)), Tail(cs))

\* ensure(): module_host = get_host_dict(...), the branch and its call.
EnsureApply ==
    /\ pc = "apply"
    /\ LET b == ensure_branch(params.fqdn, params.state, ipa_host,
                              ModuleHost(params), check_mode)
       IN /\ changed' = b.changed
          /\ diff' = b.diff
          /\ \E ok \in BOOLEAN :
               IF ok /\ AllAccepted(directory, b.calls)
               THEN /\ calls' = calls \o b.calls
                    /\ directory' = ApplyAll(directory, b.calls)
                    /\ pc' = "refind"
                    /\ UNCHANGED failure
               ELSE /\ b.calls # <<>>
                    /\ Raise(Head(b.calls).method)
                    /\ UNCHANGED <<calls, directory>>
    /\ UNCHANGED <<params, check_mode, ipa_host, host, result, dir0, prev, runs>>

\* ensure(): return changed, client.host_find(name=name)
EnsureReturn ==
    /\ pc = "refind"
    /\ \E ok \in BOOLEAN :
         IF ok
         THEN /\ calls' = Append(calls, Call("host_find", params.fqdn, EmptyDict))
              /\ host' = Some(host_find(directory, params.fqdn))
              /\ pc' = "exit_json"
              /\ UNCHANGED failure
         ELSE /\ Raise("host_find")
              /\ UNCHANGED <<calls, host>>
    /\ UNCHANGED <<params, check_mode, directory, ipa_host, changed, diff, result,
                   dir0, prev, runs>>

\* module.exit_json(changed=changed, host=host)
ExitJson ==
    /\ pc = "exit_json"
    /\ result' = Some([changed |-> changed, host |-> host[1]])
    /\ pc' = "done"
    /\ UNCHANGED <<params, check_mode, directory, ipa_host, changed, diff, host,
                   calls, failure, dir0, prev, runs>>

\* The same task is run again, in check mode or not, with no other writer
\* to the directory in between.
Rerun ==
    /\ pc = "done"
    /\ runs < MaxRuns
    /\ runs' = runs + 1
    /\ prev' = Some([check_mode |-> check_mode, changed |-> result[1].changed,
                     dir0 |-> dir0])
    /\ check_mode' \in BOOLEAN
    /\ dir0' = directory
    /\ pc' = "login"
    /\ ipa_host' = EmptyDict
    /\ changed' = FALSE
    /\ diff' = {}
    /\ host' = None
    /\ calls' = <<>>
    /\ result' = None
    /\ failure' = None
    /\ UNCHANGED <<params, directory>>

Next ==
    \/ Login
    \/ EnsureFind
    \/ EnsureApply
    \/ EnsureReturn
    \/ ExitJson
    \/ Rerun

Spec == Init /\ [][Next]_vars

----------------------------------------------------------------------------
\* Vocabulary of the properties.

Name == params.fqdn
Existed == Name \in DOMAIN dir0
Exists == Name \in DOMAIN directory
\* ensure() has returned.
Returned == pc \in {"exit_json", "done"}
Methods == [i \in DOMAIN calls |-> calls[i].method]
MutatingCalls == {i \in DOMAIN calls : calls[i].method \in MutatingMethods}
\* The module_host keys of the options that were supplied.
SuppliedKeys == {KeyOf(o) : o \in Supplied(params)}
\* The values assigned to a list attribute of an entry.
Assigned(dir, k) ==
    IF k \in DOMAIN dir[Name].attrs THEN dir[Name].attrs[k] ELSE {}
SameAttr(k) ==
    /\ (k \in DOMAIN dir0[Name].attrs) = (k \in DOMAIN directory[Name].attrs)
    /\ k \in DOMAIN dir0[Name].attrs => directory[Name].attrs[k] = dir0[Name].attrs[k]
IsPrefix(s, t) ==
    /\ Len(s) <= Len(t)
    /\ \A i \in 1..Len(s) : s[i] = t[i]

----------------------------------------------------------------------------
\* C1: when ensure() runs outside check mode with state='disabled' and
\* completes, and the host existed and was enabled, the invocation has
\* issued a host_disable call for that fqdn and the host is disabled.
C1_DisabledIssuesHostDisable ==
    (pc = "done" /\ ~check_mode /\ params.state = "disabled" /\ Existed
        /\ dir0[Name].enabled)
    => /\ \E i \in DOMAIN calls :
            calls[i].method = "host_disable" /\ calls[i].name = Name
       /\ Exists /\ ~directory[Name].enabled

\* C2: in check mode, whenever get_host_diff is non-empty, the result has a
\* host_diff field listing exactly the keys that differ; the host field is
\* in every successful result.
C2_CheckModeReturnsHostDiff ==
    pc = "done" =>
        /\ "host" \in DOMAIN result[1]
        /\ (check_mode /\ diff # {}) =>
              /\ "host_diff" \in DOMAIN result[1]
              /\ result[1].host_diff = diff

\* C3: the item passed to host_mod has only keys whose option was supplied,
\* and once ensure() has returned for an existing host and a state of
\* present, enabled or disabled, every attribute whose option was omitted
\* has the value it had before.
C3_OmittedAttributesUntouched ==
    /\ \A i \in DOMAIN calls :
          calls[i].method = "host_mod" => DOMAIN calls[i].item \subseteq SuppliedKeys
    /\ (Returned /\ Existed /\ params.state \in {"present", "enabled", "disabled"})
       => /\ Exists
          /\ \A k \in (DOMAIN dir0[Name].attrs \cup DOMAIN directory[Name].attrs)
                      \ SuppliedKeys : SameAttr(k)

\* C3 witness: a host_mod changed the entry of a host that has an assigned
\* attribute whose option was omitted.
C3_Witness ==
    /\ pc = "done"
    /\ \E i \in DOMAIN calls : calls[i].method = "host_mod"
    /\ directory # dir0
    /\ DOMAIN dir0[Name].attrs \ SuppliedKeys # {}

\* C4: for an existing host, state present, outside check mode: a passed
\* list of MAC addresses or certificates is exactly what is assigned
\* afterwards (an empty list leaves none), and an omitted list is neither
\* compared nor changed.
C4_ListOptionsReplaceAssigned ==
    (pc = "done" /\ ~check_mode /\ params.state = "present" /\ Existed)
    => /\ Exists
       /\ IF params.mac_address # None
          THEN Assigned(directory, "macaddress") = params.mac_address[1]
          ELSE /\ Assigned(directory, "macaddress") = Assigned(dir0, "macaddress")
               /\ "macaddress" \notin diff
       /\ IF params.user_certificate # None
          THEN {c.base64 : c \in Assigned(directory, "usercertificate")}
                  = params.user_certificate[1]
          ELSE /\ Assigned(directory, "usercertificate") = Assigned(dir0, "usercertificate")
               /\ "usercertificate" \notin diff

\* C4 witness: a MAC address that was assigned and not passed is gone.
C4_Witness ==
    /\ pc = "done" /\ ~check_mode /\ params.state = "present" /\ Existed
    /\ params.mac_address # None
    /\ \E m \in Assigned(dir0, "macaddress") :
          m \notin params.mac_address[1] /\ m \notin Assigned(directory, "macaddress")

\* C5: in check mode no host_add, host_mod or host_del is issued and the
\* directory stays as it was; and the changed flag of a check-mode run is
\* the flag the same invocation returns outside check mode from the same
\* starting directory.
C5_CheckModeFrame ==
    /\ check_mode => (MutatingCalls = {} /\ directory = dir0)
    /\ (pc = "done" /\ prev # None /\ prev[1].check_mode /\ ~check_mode
           /\ prev[1].dir0 = dir0)
       => result[1].changed = prev[1].changed

\* C5 witness: a check-mode run reported a change, and the same invocation
\* outside check mode made it.
C5_Witness ==
    /\ pc = "done" /\ prev # None /\ prev[1].check_mode /\ ~check_mode
    /\ prev[1].dir0 = dir0
    /\ result[1].changed
    /\ directory # dir0

\* C6: an exception of login or of a remote call ends the invocation in
\* fail_json with a message and a trace; an invocation that has ended has
\* called exactly one of exit_json and fail_json, and exit_json only when
\* no exception occurred.
C6_ExactlyOneReport ==
    /\ pc \in {"login", "find", "apply", "refind", "exit_json", "done", "failed"}
    /\ pc = "done" => (result # None /\ failure = None)
    /\ pc = "failed" =>
          /\ result = None /\ failure # None
          /\ DOMAIN failure[1] = {"msg", "exception"}
    /\ pc \notin {"done", "failed"} => (result = None /\ failure = None)

\* C6 witness: host_mod raised and the invocation ended in fail_json.
C6_Witness ==
    /\ pc = "failed"
    /\ failure # None /\ failure[1].msg = "host_mod"
    /\ result = None

\* C7: the calls of an invocation are a prefix of login, host_find, at most
\* one of host_add, host_mod, host_del, host_find; a completed invocation
\* has made the whole sequence and returns the result of the second
\* host_find.
C7_CallSequence ==
    /\ \/ IsPrefix(Methods, <<"login", "host_find", "host_find">>)
       \/ \E m \in MutatingMethods :
             IsPrefix(Methods, <<"login", "host_find", m, "host_find">>)
    /\ pc = "done" =>
          /\ Len(calls) \in {3, 4}
          /\ calls[Len(calls)].method = "host_find"
          /\ result[1].host = host_find(directory, Name)

\* C7 witness: a completed invocation with a host_del between the two finds.
C7_Witness ==
    /\ pc = "done"
    /\ Len(calls) = 4
    /\ calls[3].method = "host_del"
    /\ result[1].host = EmptyDict

\* C8: after an invocation outside check mode that completed, a second
\* invocation with the same parameters issues no host_add, host_mod or
\* host_del and returns changed=False.
C8_Idempotent ==
    (prev # None /\ ~prev[1].check_mode)
    => /\ MutatingCalls = {}
       /\ changed = FALSE
       /\ pc = "done" => result[1].changed = FALSE

\* C8 witness: the first invocation added the host with force and
\* ip_address, the second one completed.
C8_Witness ==
    /\ pc = "done" /\ prev # None /\ ~prev[1].check_mode
    /\ prev[1].changed
    /\ prev[1].dir0 = EmptyDict
    /\ params.force # None /\ params.ip_address # None
    /\ result[1].changed = FALSE

====
